---------------------------- MODULE Spec2Model ----------------------------
(***************************************************************************)
(* Tool-call dispatch and request/response translation of the Gemini MCP   *)
(* bridge.  The repository holds three servers: src/server.py (FastMCP,    *)
(* REST calls through requests), src/server_robust.py and                  *)
(* src/server_original.py (low-level MCP server, google.generativeai).     *)
(* One run of the model is one server process of one variant; a handler    *)
(* is split only where it blocks on the network, and the environment      *)
(* answers the pending call.                                               *)
(*                                                                         *)
(* A text (Python str) is a sequence of atoms; "" is << >>, concatenation  *)
(* is \o.  Literal fragments of the code's f-strings are single atoms.     *)
(* Temperatures are counted in tenths (7 is 0.7).                          *)
(***************************************************************************)
EXTENDS Integers, Sequences, FiniteSets, TLC

VARIABLES variant, apiKey, pc, tool, args, request, image, upstream, result,
          raised, netCalls, downloads, calls, locals

\* the server's configuration and the invocation followed step by step
mainVars == <<variant, apiKey, pc, tool, args, request, image, upstream, result,
              raised, netCalls, downloads>>

\* invocations in flight at the same time, and the local variables of their
\* handler activations
concVars == <<calls, locals>>

vars == <<mainVars, concVars>>

---------------------------------------------------------------------------
(* Bounds of the model *)

\* longest list of parts in a candidate's content
MaxParts == 2
\* largest finish-reason code the upstream sends
MaxFinishCode == 5

---------------------------------------------------------------------------
(* Texts *)

\* str -> text: the empty Python string is the empty sequence
T(s) == IF s = "" THEN << >> ELSE <<s>>

RECURSIVE Join(_, _)
\* sep.join(texts)
Join(sep, texts) ==
    IF texts = << >> THEN << >>
    ELSE IF Len(texts) = 1 THEN texts[1]
    ELSE texts[1] \o sep \o Join(sep, Tail(texts))

\* atom a occurs in text t
Contains(t, a) == \E i \in 1..Len(t) : t[i] = a

\* text t begins with text p
StartsWith(t, p) == Len(t) >= Len(p) /\ SubSeq(t, 1, Len(p)) = p

\* every atom of s occurs in t
Enumerates(t, s) == \A i \in 1..Len(s) : Contains(t, s[i])

---------------------------------------------------------------------------
(* Configuration *)

Variants == {"server", "robust", "original"}

\* keys of MODELS, in insertion order
MODELS ==
    <<"gemini-2.5-flash", "gemini-2.0-flash", "gemini-1.5-flash",
      "gemini-1.5-pro", "gemini-pro", "gemini-pro-vision">>

\* keys of AVAILABLE_MODELS of the robust server
AVAILABLE_MODELS ==
    <<"gemini-2.5-flash", "gemini-2.0-flash", "gemini-1.5-flash",
      "gemini-1.5-pro", "gemini-pro", "gemini-pro-vision">>

vision_models ==
    <<"gemini-2.5-flash", "gemini-2.0-flash", "gemini-1.5-flash",
      "gemini-1.5-pro", "gemini-pro-vision">>

InSeq(x, s) == \E i \in 1..Len(s) : s[i] = x

\* str(int) of the status codes the model uses
StatusStr(n) ==
    CASE n = 200 -> "200"
      [] n = 201 -> "201"
      [] n = 404 -> "404"
      [] n = 500 -> "500"
      [] OTHER   -> "???"

\* str(int) of a finish-reason code
CodeStr(n) ==
    CASE n = 0 -> "0" [] n = 1 -> "1" [] n = 2 -> "2" [] n = 3 -> "3"
      [] n = 4 -> "4" [] n = 5 -> "5" [] n = 6 -> "6" [] n = 7 -> "7"
      [] n = 8 -> "8" [] n = 9 -> "9" [] OTHER -> "N"

---------------------------------------------------------------------------
(* Arguments: an optional value is a set of at most one element, so that   *)
(* dict.get(key, default) and a Python default parameter are Get.          *)

Opt(S) == {{}} \cup {{x} : x \in S}

Get(arg, default) == IF arg = {} THEN default ELSE CHOOSE x \in arg : TRUE

\* Python's None, where a str is expected
None == "<None>"

\* truth value of a str-or-None
Truthy(s) == s /= None /\ s /= ""

ToolNames ==
    {"gemini_chat", "gemini_analyze_image", "gemini_list_models",
     "gemini_count_tokens", "gemini_generate_content", "no_such_tool"}

\* a known vision model is the default; one known model without vision; one unknown
ModelArgs == Opt({"gemini-pro", "gemini-9"})

MessageArgs == Opt({"", "hi"})

SystemPromptArgs == Opt({"", "be brief"})

\* the default temperature and one above 1.0
TemperatureArgs == Opt({15})

ImageUrlArgs == Opt({"http://img"})

NoArgs ==
    [message |-> {}, model |-> {}, temperature |-> {}, system_prompt |-> {},
     image_url |-> {}]

\* a chat call that gives the message and leaves every default
Plain == [NoArgs EXCEPT !.message = {"hi"}]

\* the argument mappings tried for tool t: for the chat tools, Plain with one
\* argument changed at a time
ArgsOf(t) ==
    CASE t = "gemini_chat" ->
           {[NoArgs EXCEPT !.message = m] : m \in MessageArgs}
           \cup {[Plain EXCEPT !.model = mo] : mo \in ModelArgs}
           \cup {[Plain EXCEPT !.temperature = te] : te \in TemperatureArgs}
           \cup {[Plain EXCEPT !.system_prompt = sp] : sp \in SystemPromptArgs}
      [] t = "gemini_generate_content" ->
           {[NoArgs EXCEPT !.message = m] : m \in MessageArgs}
           \cup {[Plain EXCEPT !.model = mo] : mo \in ModelArgs}
           \cup {[Plain EXCEPT !.temperature = te] : te \in TemperatureArgs}
      [] t = "gemini_analyze_image" ->
           {[NoArgs EXCEPT !.image_url = u, !.model = mo] :
              u \in ImageUrlArgs, mo \in ModelArgs}
      [] t = "gemini_count_tokens" ->
           {[Plain EXCEPT !.model = mo] : mo \in ModelArgs}
      [] OTHER -> {NoArgs}

---------------------------------------------------------------------------
(* What the network answers *)

SeqsUpTo(S, n) == UNION {[1..k -> S] : k \in 0..n}

TextPart(t) == [isText |-> TRUE, text |-> t]

\* a part without a "text" key (inline data)
NonTextPart == [isText |-> FALSE, text |-> << >>]

PartVals == {NonTextPart} \cup {TextPart(T(s)) : s \in {"", "Hello, ", "world!"}}

FinishArgs == Opt(0..MaxFinishCode)

Candidates ==
    {[hasContent |-> FALSE, hasParts |-> FALSE, parts |-> << >>, finish |-> f] :
        f \in FinishArgs}
    \cup
    {[hasContent |-> TRUE, hasParts |-> FALSE, parts |-> << >>, finish |-> f] :
        f \in FinishArgs}
    \cup
    {[hasContent |-> TRUE, hasParts |-> TRUE, parts |-> ps, finish |-> f] :
        ps \in SeqsUpTo(PartVals, MaxParts), f \in FinishArgs}

\* a second candidate, which no server reads
OtherCandidate ==
    [hasContent |-> TRUE, hasParts |-> TRUE,
     parts |-> <<TextPart(<<"second">>)>>, finish |-> {1}]

\* no candidate, one, or two (a second one after each first candidate that
\* carries no finish reason)
CandidateLists ==
    {<< >>} \cup {<<c>> : c \in Candidates}
    \cup {<<c, OtherCandidate>> : c \in {x \in Candidates : x.finish = {}}}

BlockReasons == {"", "SAFETY"}

\* the exception messages and error bodies the model uses
Exceptions == {"timed out"}

ErrorBody == <<"quota exceeded">>

Statuses == {200, 201, 500}

NoOutcome ==
    [kind |-> "none", status |-> 0, e |-> "", malformed |-> FALSE,
     block |-> "", hasCands |-> FALSE, cands |-> << >>, acc |-> "text",
     models |-> << >>, tokens |-> {}]

\* the first candidate has a non-empty list of parts
HasValidPart(o) ==
    /\ o.hasCands /\ Len(o.cands) > 0
    /\ o.cands[1].hasContent /\ o.cands[1].hasParts /\ Len(o.cands[1].parts) > 0

\* a decoded generateContent response
Responses ==
    {[NoOutcome EXCEPT !.kind = "http", !.status = 200, !.block = b,
                       !.hasCands = TRUE, !.cands = cs] :
        b \in BlockReasons, cs \in CandidateLists}
    \cup
    {[NoOutcome EXCEPT !.kind = "http", !.status = 200, !.block = b] :
        b \in BlockReasons}

Failures ==
    {[NoOutcome EXCEPT !.kind = "raise", !.e = x] : x \in Exceptions}

HttpErrors ==
    {[NoOutcome EXCEPT !.kind = "http", !.status = s] : s \in Statuses \ {200}}

Malformed == [NoOutcome EXCEPT !.kind = "http", !.status = 200, !.malformed = TRUE]

---------------------------------------------------------------------------
(* Reading a generateContent response *)

\* the texts of the parts that carry text, in order
Texts(parts) ==
    LET sel == SelectSeq(parts, LAMBDA p : p.isText)
    IN  [i \in 1..Len(sel) |-> sel[i].text]

\* server.py: result["candidates"][0]["content"]["parts"] joined, or the fallback
NoResponse == <<"Error: No response generated">>

\* ExtractText without the length test on the candidates
ExtractText_no_length_test(o) ==
    IF o.hasCands
    THEN IF Len(o.cands) > 0 /\ o.cands[1].hasContent /\ o.cands[1].hasParts
         THEN Join(<<"\n">>, Texts(o.cands[1].parts))
         ELSE << >>
    ELSE NoResponse

ExtractText(o) ==
    IF o.hasCands /\ Len(o.cands) > 0
    THEN LET candidate == o.cands[1]
         IN  IF candidate.hasContent /\ candidate.hasParts
             THEN Join(<<"\n">>, Texts(candidate.parts))
             ELSE NoResponse
    ELSE NoResponse

\* google.generativeai: response.parts is the first candidate's parts
LibParts(o) ==
    IF o.hasCands /\ Len(o.cands) > 0 /\ o.cands[1].hasContent /\ o.cands[1].hasParts
    THEN o.cands[1].parts
    ELSE << >>

\* google.generativeai: response.text is the texts of response.parts put together
LibText(o) == Join(<< >>, Texts(LibParts(o)))

\* how the response object answers the accessors the robust server probes:
\*   "text"         response.text returns LibText
\*   "textRaises"   reading response.text raises (not an AttributeError)
\*   "parts"        no text attribute; response.parts returns LibParts
\*   "partsRaises"  no text attribute; reading response.parts raises
\*   "none"         neither attribute
AccModes == {"text", "textRaises", "parts", "partsRaises", "none"}

AccessError == "response has no valid part"

Blocked(block_reason) ==
    <<"Response was ", "blocked", " by safety filters. Reason: ", block_reason,
      ". Try rephrasing your query or using different parameters.">>

reason_map(finish_reason) ==
    CASE finish_reason = 1 -> <<"STOP", " - Natural ending">>
      [] finish_reason = 2 -> <<"SAFETY", " - Content was filtered">>
      [] finish_reason = 3 -> <<"MAX_TOKENS", " - Hit token limit">>
      [] finish_reason = 4 -> <<"UNSPECIFIED">>
      [] finish_reason = 5 -> <<"OTHER">>
      [] OTHER -> <<"Unknown reason: ", CodeStr(finish_reason)>>

Filtered(finish_reason) ==
    <<"Response was filtered. Finish reason: ">> \o reason_map(finish_reason)
    \o <<"\n\nTry:\n1. Rephrasing your query\n2. Using a different model\n3. Adjusting temperature settings">>

NoTextContent ==
    <<"No text content in response. The model may have filtered the content.">>

GenerateError(e) == <<"Error generating response: ">> \o T(e)

\* server_robust.py: the else branch, when the response has neither text nor parts
RobustFiltered(o) ==
    IF o.hasCands /\ Len(o.cands) > 0 /\ o.cands[1].finish /= {}
    THEN Filtered(Get(o.cands[1].finish, 0))
    ELSE NoTextContent

\* server_robust.py: "Extract text from response"
RobustExtract(o) ==
    CASE o.acc = "text" -> LibText(o)
      [] o.acc = "textRaises" -> GenerateError(AccessError)
      [] o.acc = "partsRaises" -> GenerateError(AccessError)
      [] o.acc = "parts" /\ LibParts(o) /= << >> -> Join(<< >>, Texts(LibParts(o)))
      [] OTHER -> RobustFiltered(o)

\* server_robust.py: the block check comes first
RobustTranslate(o) ==
    IF o.block /= "" THEN Blocked(o.block) ELSE RobustExtract(o)

\* server_original.py: text=response.text inside try / except Exception
OriginalTranslate(o) ==
    IF o.acc = "text" THEN LibText(o) ELSE <<"Error: ">> \o T(AccessError)

---------------------------------------------------------------------------
(* Requests and the steps of a handler *)

NoRequest ==
    [endpoint |-> "", model |-> "", contents |-> << >>, temperature |-> {},
     max_tokens |-> {}, image |-> FALSE]

Turn(role, text) == [role |-> role, text |-> text]

\* the handler returns text
Done(text) == [next |-> "done", text |-> text, req |-> NoRequest]

\* the handler lets an exception out
Raises == [next |-> "raised", text |-> << >>, req |-> NoRequest]

\* the handler blocks in a call to the generative API
Send(req) == [next |-> "upstream", text |-> << >>, req |-> req]

\* the handler blocks in requests.get(image_url)
Fetch == [next |-> "download", text |-> << >>, req |-> NoRequest]

---------------------------------------------------------------------------
(* src/server.py *)

NotConfigured == <<"Error: GEMINI_API_KEY not configured">>

Names(models) == [i \in 1..Len(models) |-> T(models[i])]

InvalidModel(model) ==
    <<"Error: Invalid model '">> \o T(model) \o <<"'. Available models: ">>
    \o Join(<<", ">>, Names(MODELS))

NoVision(model) ==
    <<"Error: Model '">> \o T(model)
    \o <<"' doesn't support image analysis. Use one of: ">>
    \o Join(<<", ">>, Names(vision_models))

ApiError(o) == <<"Gemini API error (", StatusStr(o.status), "): ">> \o ErrorBody

JsonError == "Expecting value"

\* contents of gemini_chat's request body; message is a text
ChatContents(message, system_prompt) ==
    (IF Truthy(system_prompt)
     THEN <<Turn("user", <<"System: ">> \o T(system_prompt)),
            Turn("model", <<"Understood. I'll follow these instructions.">>)>>
     ELSE << >>)
    \o <<Turn("user", message)>>

\* gemini_chat with the model check ahead of the key check
gemini_chat_model_first(message, model, temperature, max_tokens, system_prompt) ==
    IF ~InSeq(model, MODELS) THEN Done(InvalidModel(model))
    ELSE IF ~apiKey THEN Done(NotConfigured)
    ELSE Send([endpoint |-> "generateContent", model |-> model,
               contents |-> ChatContents(message, system_prompt),
               temperature |-> {temperature}, max_tokens |-> {max_tokens},
               image |-> FALSE])

\* gemini_chat up to requests.post
gemini_chat(message, model, temperature, max_tokens, system_prompt) ==
    IF ~apiKey THEN Done(NotConfigured)
    ELSE IF ~InSeq(model, MODELS) THEN Done(InvalidModel(model))
    ELSE Send([endpoint |-> "generateContent", model |-> model,
               contents |-> ChatContents(message, system_prompt),
               temperature |-> {temperature}, max_tokens |-> {max_tokens},
               image |-> FALSE])

\* gemini_chat posting the same request again when requests.post raised
gemini_chat_returns_retry(o) ==
    IF o.kind = "raise" THEN Send(request)
    ELSE IF o.status /= 200 THEN Done(ApiError(o))
    ELSE IF o.malformed THEN Done(<<"Error calling Gemini: ">> \o T(JsonError))
    ELSE Done(ExtractText(o))

\* gemini_chat from the return of requests.post
gemini_chat_returns(o) ==
    IF o.kind = "raise" THEN Done(<<"Error calling Gemini: ">> \o T(o.e))
    ELSE IF o.status /= 200 THEN Done(ApiError(o))
    ELSE IF o.malformed THEN Done(<<"Error calling Gemini: ">> \o T(JsonError))
    ELSE Done(ExtractText(o))

\* gemini_generate_content hands over to gemini_chat
gemini_generate_content(prompt, content_type, model, temperature, max_tokens) ==
    gemini_chat(<<"Please generate a ", content_type,
                  " based on the following prompt:\n\n">> \o T(prompt),
                model, temperature, max_tokens, None)

\* gemini_analyze_image up to requests.get
gemini_analyze_image(image_url, prompt, model) ==
    IF ~apiKey THEN Done(NotConfigured)
    ELSE IF ~InSeq(model, vision_models) THEN Done(NoVision(model))
    ELSE Fetch

\* gemini_analyze_image from the return of requests.get to requests.post
gemini_analyze_image_fetched(d, prompt, model) ==
    IF d.kind = "raise" THEN Done(<<"Error analyzing image: ">> \o T(d.e))
    ELSE IF d.status /= 200
    THEN Done(<<"Error downloading image: ", StatusStr(d.status)>>)
    ELSE Send([endpoint |-> "generateContent", model |-> model,
               contents |-> <<Turn("", T(prompt))>>,
               temperature |-> {}, max_tokens |-> {}, image |-> TRUE])

\* gemini_analyze_image from the return of requests.post
gemini_analyze_image_returns(o) ==
    IF o.kind = "raise" THEN Done(<<"Error analyzing image: ">> \o T(o.e))
    ELSE IF o.status /= 200 THEN Done(ApiError(o))
    ELSE IF o.malformed THEN Done(<<"Error analyzing image: ">> \o T(JsonError))
    ELSE Done(ExtractText(o))

\* name.replace("models/", "")
StripPrefix(name) == SelectSeq(name, LAMBDA a : a /= "models/")

\* the report of gemini_list_models: one entry per model (<b> stands for the
\* Markdown bold marker)
ModelsReport(models) ==
    <<"Available Gemini Models:\n\n">>
    \o Join(<< >>, [i \in 1..Len(models) |->
                      <<"<b>">> \o StripPrefix(models[i]) \o <<"</b> (">>
                      \o StripPrefix(models[i]) \o <<")\n">>
                      \o <<"  Description: No description available\n">>
                      \o <<"  Supported methods: \n\n">>])

gemini_list_models ==
    IF ~apiKey THEN Done(NotConfigured)
    ELSE Send([NoRequest EXCEPT !.endpoint = "models"])

gemini_list_models_returns(o) ==
    IF o.kind = "raise" THEN Done(<<"Error listing models: ">> \o T(o.e))
    ELSE IF o.status /= 200 THEN Done(<<"Error listing models: ">> \o ErrorBody)
    ELSE IF o.malformed THEN Done(<<"Error listing models: ">> \o T(JsonError))
    ELSE Done(ModelsReport(o.models))

gemini_count_tokens(text, model) ==
    IF ~apiKey THEN Done(NotConfigured)
    ELSE Send([NoRequest EXCEPT !.endpoint = "countTokens", !.model = model,
                                !.contents = <<Turn("", T(text))>>])

gemini_count_tokens_returns(o) ==
    IF o.kind = "raise" THEN Done(<<"Error counting tokens: ">> \o T(o.e))
    ELSE IF o.status /= 200 THEN Done(<<"Error counting tokens: ">> \o ErrorBody)
    ELSE IF o.malformed THEN Done(<<"Error counting tokens: ">> \o T(JsonError))
    ELSE Done(<<"Token count: ", CodeStr(Get(o.tokens, 0)), " tokens">>)

---------------------------------------------------------------------------
(* src/server_robust.py and src/server_original.py *)

\* the prompt the robust server hands to generate_content
RobustPrompt(message, system_prompt) ==
    IF Truthy(system_prompt)
    THEN T(system_prompt) \o <<"\n\nUser: ">> \o T(message) \o <<"\n\nAssistant:">>
    ELSE T(message)

\* the prompt the original server hands to generate_content
OriginalPrompt(message, system_prompt) ==
    IF Truthy(system_prompt)
    THEN T(system_prompt) \o <<"\n\nUser: ">> \o T(message)
    ELSE T(message)

LibraryRequest(a, prompt) ==
    [endpoint |-> "generateContent", model |-> Get(a.model, "gemini-2.5-flash"),
     contents |-> <<Turn("", prompt)>>, temperature |-> {Get(a.temperature, 7)},
     max_tokens |-> {2048}, image |-> FALSE]

\* the static list of the robust server
RobustModels ==
    <<"Available Gemini Models:\n\n">>
    \o Join(<< >>, [i \in 1..Len(AVAILABLE_MODELS) |->
                      <<"- ", AVAILABLE_MODELS[i], ": description\n">>])

\* server_robust.py call_tool up to generate_content
robust_call_tool(name, a) ==
    IF name = "gemini_chat"
    THEN IF ~Truthy(Get(a.message, None))
         THEN Done(<<"Error: ", "Message is required">>)
         ELSE Send(LibraryRequest(a, RobustPrompt(Get(a.message, None),
                                                  Get(a.system_prompt, ""))))
    ELSE IF name = "gemini_list_models"
    THEN Done(RobustModels)
    ELSE Done(<<"Error: ", "Unknown tool: ", name>>)

\* server_robust.py call_tool from the return of generate_content
robust_call_tool_returns(o) ==
    IF o.kind = "raise" THEN Done(GenerateError(o.e))
    ELSE Done(RobustTranslate(o))

\* server_original.py call_tool up to its first network call
original_call_tool(name, a) ==
    IF name = "gemini_chat"
    THEN IF ~Truthy(Get(a.message, None))
         THEN Done(<<"Error: ", "Message is required">>)
         ELSE Send(LibraryRequest(a, OriginalPrompt(Get(a.message, None),
                                                    Get(a.system_prompt, None))))
    ELSE IF name = "gemini_list_models"
    THEN Send([NoRequest EXCEPT !.endpoint = "models"])
    ELSE IF name = "gemini_analyze_image"
    THEN IF ~Truthy(Get(a.image_url, None))
         THEN Done(<<"Error analyzing image: ", "Image URL is required">>)
         ELSE Fetch
    ELSE Raises

\* server_original.py gemini_analyze_image: requests.get, raise_for_status, Image.open
original_call_tool_fetched(d, a) ==
    IF d.kind = "raise" THEN Done(<<"Error analyzing image: ">> \o T(d.e))
    ELSE IF d.status >= 400
    THEN Done(<<"Error analyzing image: ", StatusStr(d.status), " Error">>)
    ELSE IF ~d.imageOk
    THEN Done(<<"Error analyzing image: ", "cannot identify image file">>)
    ELSE Send([endpoint |-> "generateContent",
               model |-> Get(a.model, "gemini-2.5-flash"),
               contents |-> <<Turn("", <<"What's in this image?">>)>>,
               temperature |-> {}, max_tokens |-> {}, image |-> TRUE])

\* the report of the original server's gemini_list_models
OriginalReport(models) ==
    Join(<<"\n">>, <<<<"Available Gemini models:\n">>>>
                   \o [i \in 1..Len(models) |-> <<"\n- ">> \o models[i]])

\* server_original.py call_tool from the return of its generative API call
original_call_tool_returns(name, o) ==
    IF name = "gemini_chat"
    THEN IF o.kind = "raise" THEN Done(<<"Error: ">> \o T(o.e))
         ELSE Done(OriginalTranslate(o))
    ELSE IF name = "gemini_list_models"
    THEN IF o.kind = "raise" THEN Done(<<"Error listing models: ">> \o T(o.e))
         ELSE Done(OriginalReport(o.models))
    ELSE IF o.kind = "raise" THEN Done(<<"Error analyzing image: ">> \o T(o.e))
         ELSE IF o.acc = "text" THEN Done(LibText(o))
         ELSE Done(<<"Error analyzing image: ">> \o T(AccessError))

---------------------------------------------------------------------------
(* The tool-call boundary *)

\* FastMCP calls a handler only for a registered tool; call_tool gets any name
ToolsOf(v) == IF v = "server" THEN ToolNames \ {"no_such_tool"} ELSE ToolNames

\* a parameter without a default is always bound in server.py's handlers
CallArgs(v, t) ==
    IF v = "server"
    THEN {a \in ArgsOf(t) :
            /\ t \in {"gemini_chat", "gemini_generate_content"} => a.message /= {}
            /\ t = "gemini_analyze_image" => a.image_url /= {}}
    ELSE ArgsOf(t)

DefaultModel(a) == Get(a.model, "gemini-2.5-flash")

\* the handler of tool t, up to its first network call
Begin(v, t, a) ==
    CASE v = "robust" -> robust_call_tool(t, a)
      [] v = "original" -> original_call_tool(t, a)
      [] v = "server" /\ t = "gemini_chat" ->
           gemini_chat(T(Get(a.message, "")), DefaultModel(a),
                       Get(a.temperature, 7), 2048, Get(a.system_prompt, None))
      [] v = "server" /\ t = "gemini_generate_content" ->
           gemini_generate_content(Get(a.message, ""), "story", DefaultModel(a),
                                   Get(a.temperature, 9), 4096)
      [] v = "server" /\ t = "gemini_analyze_image" ->
           gemini_analyze_image(Get(a.image_url, ""), "What's in this image?",
                                DefaultModel(a))
      [] v = "server" /\ t = "gemini_list_models" -> gemini_list_models
      [] v = "server" /\ t = "gemini_count_tokens" ->
           gemini_count_tokens(Get(a.message, ""), DefaultModel(a))

\* the handler from the return of requests.get(image_url)
Fetched(v, t, a, d) ==
    IF v = "server"
    THEN gemini_analyze_image_fetched(d, "What's in this image?", DefaultModel(a))
    ELSE original_call_tool_fetched(d, a)

\* the handler from the return of its generative API call
Returned(v, t, o) ==
    CASE v = "robust" -> robust_call_tool_returns(o)
      [] v = "original" -> original_call_tool_returns(t, o)
      [] v = "server" /\ t \in {"gemini_chat", "gemini_generate_content"} ->
           gemini_chat_returns(o)
      [] v = "server" /\ t = "gemini_analyze_image" -> gemini_analyze_image_returns(o)
      [] v = "server" /\ t = "gemini_list_models" -> gemini_list_models_returns(o)
      [] v = "server" /\ t = "gemini_count_tokens" -> gemini_count_tokens_returns(o)

ModelLists ==
    {[NoOutcome EXCEPT !.kind = "http", !.status = 200, !.models = ms] :
        ms \in SeqsUpTo({<<"models/", "gemini-pro">>}, 1)}

TokenCounts ==
    {[NoOutcome EXCEPT !.kind = "http", !.status = 200, !.tokens = n] :
        n \in Opt({7})}

\* what generate_content hands to the robust server: response.text returns only
\* when the response holds a part
RobustOutcomes ==
    Failures \cup
    {o \in {[r EXCEPT !.acc = m] : r \in Responses, m \in AccModes} :
       o.acc = "text" => HasValidPart(o)}

\* what generate_content hands to the original server, which reads response.text
OriginalOutcomes ==
    Failures \cup
    {o \in {[r EXCEPT !.acc = m] : r \in Responses, m \in {"text", "textRaises"}} :
       o.acc = "text" => HasValidPart(o)}

\* what requests.post hands to server.py
ServerOutcomes == Failures \cup HttpErrors \cup {Malformed} \cup Responses

\* the answers of the generative API to the pending call
Outcomes(v, t) ==
    CASE v = "robust" -> RobustOutcomes
      [] v = "original" /\ t = "gemini_list_models" -> Failures \cup ModelLists
      [] v = "original" /\ t /= "gemini_list_models" -> OriginalOutcomes
      [] v = "server" /\ t = "gemini_list_models" ->
           Failures \cup HttpErrors \cup {Malformed} \cup ModelLists
      [] v = "server" /\ t = "gemini_count_tokens" ->
           Failures \cup HttpErrors \cup {Malformed} \cup TokenCounts
      [] OTHER -> ServerOutcomes

NoImage == [kind |-> "none", status |-> 0, e |-> "", imageOk |-> FALSE]

\* the answers to requests.get(image_url)
Downloads ==
    {[NoImage EXCEPT !.kind = "raise", !.e = x] : x \in Exceptions}
    \cup
    {[NoImage EXCEPT !.kind = "http", !.status = s, !.imageOk = b] :
        s \in Statuses, b \in BOOLEAN}

---------------------------------------------------------------------------
(* The server process *)

\* how many invocations are followed at the same time
MaxCalls == 2

Calls == 1..MaxCalls

\* an invocation the transport has not handed over: its position, tool and
\* arguments, the answers delivered to its own requests (image, got), its
\* result, and whether another invocation was in flight while it finished
IdleCall ==
    [pc |-> "idle", tool |-> "", args |-> NoArgs, image |-> NoImage,
     got |-> NoOutcome, result |-> << >>, overlap |-> FALSE]

\* the local variables image_response and response of one handler activation
NoLocals == [image_response |-> NoImage, response |-> NoOutcome]

Init ==
    /\ variant \in Variants
    /\ apiKey \in BOOLEAN
    /\ pc = "boot"
    /\ tool = ""
    /\ args = NoArgs
    /\ request = NoRequest
    /\ image = NoImage
    /\ upstream = NoOutcome
    /\ result = << >>
    /\ raised = FALSE
    /\ netCalls = 0
    /\ downloads = 0
    /\ calls = [i \in Calls |-> IdleCall]
    /\ locals = [i \in Calls |-> NoLocals]

\* module start: the low-level servers exit without a key, server.py only logs
Startup ==
    /\ pc = "boot"
    /\ pc' = IF variant /= "server" /\ ~apiKey THEN "exited" ELSE "idle"
    /\ UNCHANGED <<variant, apiKey, tool, args, request, image, upstream, result,
                   raised, netCalls, downloads>>
    /\ UNCHANGED concVars

\* the effect of a handler step on the state of the invocation
Apply(eff) ==
    /\ pc' = eff.next
    /\ result' = eff.text
    /\ raised' = (eff.next = "raised")
    /\ request' = IF eff.next = "upstream" THEN eff.req ELSE request
    /\ netCalls' = IF eff.next = "upstream" THEN netCalls + 1 ELSE netCalls
    /\ downloads' = IF eff.next = "download" THEN downloads + 1 ELSE downloads

\* the transport hands a tool call to the handler
Invoke(t, a) ==
    /\ pc = "idle"
    /\ tool' = t
    /\ args' = a
    /\ Apply(Begin(variant, t, a))
    /\ UNCHANGED <<variant, apiKey, image, upstream>>
    /\ UNCHANGED concVars

\* requests.get(image_url) returns or raises
DownloadReturns(d) ==
    /\ pc = "download"
    /\ image' = d
    /\ Apply(Fetched(variant, tool, args, d))
    /\ UNCHANGED <<variant, apiKey, tool, args, upstream>>
    /\ UNCHANGED concVars

\* the call to the generative API returns or raises
UpstreamReturns(o) ==
    /\ pc = "upstream"
    /\ upstream' = o
    /\ Apply(Returned(variant, tool, o))
    /\ UNCHANGED <<variant, apiKey, tool, args, image>>
    /\ UNCHANGED concVars

\* the result (or the exception) has left the handler; the server waits again
Return ==
    /\ pc \in {"done", "raised"}
    /\ pc' = "idle"
    /\ tool' = ""
    /\ args' = NoArgs
    /\ request' = NoRequest
    /\ image' = NoImage
    /\ upstream' = NoOutcome
    /\ result' = << >>
    /\ raised' = FALSE
    /\ netCalls' = 0
    /\ downloads' = 0
    /\ UNCHANGED <<variant, apiKey>>
    /\ UNCHANGED concVars

Next ==
    \/ Startup
    \/ \E t \in ToolsOf(variant) : \E a \in CallArgs(variant, t) : Invoke(t, a)
    \/ \E d \in Downloads : DownloadReturns(d)
    \/ \E o \in Outcomes(variant, tool) : UpstreamReturns(o)
    \/ Return

Spec == Init /\ [][Next]_vars

---------------------------------------------------------------------------
(* Properties *)

ChatTools == {"gemini_chat", "gemini_generate_content"}

GeneratingTools == ChatTools \cup {"gemini_analyze_image"}

\* the invocation is over and its pending call was answered by a decoded response
Answered ==
    /\ pc = "done"
    /\ tool \in ChatTools => args.message = {"hi"}
    /\ upstream.kind = "http"
    /\ ~upstream.malformed
    /\ upstream.models = << >> /\ upstream.tokens = {}

HasFirst == upstream.hasCands /\ Len(upstream.cands) > 0

\* C1: every tool invocation, whatever the tool name, ends with one text result
\* and no exception leaves the tool-call handler.
C1_NoFaultLeavesHandler ==
    pc \in {"done", "raised"} => (pc = "done" /\ ~raised)

\* C2: a chat invocation (key configured) whose model is not a known model makes
\* no network call and returns an error that lists every known model name.
C2_UnknownModelRejected ==
    (apiKey /\ tool = "gemini_chat" /\ args.message = {"hi"}
       /\ ~InSeq(DefaultModel(args), MODELS))
    => /\ netCalls = 0
       /\ pc = "done" => Enumerates(result, MODELS)

\* C3: an invocation (key configured) whose required parameter is missing, or a
\* chat invocation whose message is the empty string, makes no network call and
\* returns a text that says the parameter is required.
C3_MissingParameterRejected ==
    (apiKey /\ ( \/ tool = "gemini_chat" /\ Get(args.message, "") = ""
                 \/ variant = "original" /\ tool = "gemini_analyze_image"
                    /\ args.image_url = {} ))
    => /\ netCalls = 0 /\ downloads = 0
       /\ pc = "done" => \/ Contains(result, "Message is required")
                         \/ Contains(result, "Image URL is required")

\* C4: without an API key every tool call returns the text "Error: GEMINI_API_KEY
\* not configured" at once, whatever its arguments, and nothing is sent or fetched.
C4_NotConfigured ==
    (~apiKey /\ tool /= "")
    => /\ pc = "done"
       /\ StartsWith(result, NotConfigured)
       /\ netCalls = 0 /\ downloads = 0

\* C4 witness: a chat call with an unknown model and no key has been answered
C4_Witness ==
    /\ ~apiKey /\ pc = "done" /\ tool = "gemini_chat"
    /\ args.model = {"gemini-9"}
    /\ result = NotConfigured

\* C5: when the response carries a prompt-feedback block reason, the chat result
\* holds the word "blocked" and the reason, and is not the candidate's text.
C5_BlockedIsReported ==
    (Answered /\ variant \in {"server", "robust"} /\ tool \in ChatTools
       /\ upstream.status = 200 /\ upstream.block /= "")
    => /\ Contains(result, "blocked")
       /\ Contains(result, upstream.block)

\* C6: when the first candidate of the response carries finish-reason code 3 (and
\* no block reason is set), the chat result mentions MAX_TOKENS.
C6_MaxTokensIsReported ==
    (Answered /\ variant \in {"server", "robust"} /\ tool \in ChatTools
       /\ upstream.status = 200 /\ upstream.block = ""
       /\ HasFirst /\ upstream.cands[1].finish = {3})
    => Contains(result, "MAX_TOKENS")

\* C7: the result for a successful response is the texts of the first candidate's
\* text parts, in order, with nothing put between them (here for parts that all
\* carry a non-empty text).
C7_PartsJoinedWithoutSeparator ==
    (Answered /\ variant = "server" /\ tool \in GeneratingTools
       /\ upstream.status = 200 /\ HasFirst
       /\ upstream.cands[1].hasContent /\ upstream.cands[1].hasParts
       /\ Texts(upstream.cands[1].parts) /= << >>
       /\ \A i \in 1..Len(upstream.cands[1].parts) :
             upstream.cands[1].parts[i].text /= << >>)
    => result = Join(<< >>, Texts(upstream.cands[1].parts))

\* a decoded response without a candidate
ZeroCandidates == Answered /\ tool \in GeneratingTools /\ ~HasFirst

C9_NeverEmpty ==
    (Answered /\ variant = "server" /\ tool \in GeneratingTools
       /\ upstream.status = 200 /\ HasFirst
       /\ Join(<< >>, Texts(LibParts(upstream))) = << >>)
    => result = NoResponse

\* C10: an image-analysis invocation (key configured, image URL given) whose
\* model is not a vision model fetches nothing, sends nothing, and returns an
\* error that lists the vision models.
C10_NonVisionModelRejected ==
    (apiKey /\ variant \in {"server", "original"} /\ tool = "gemini_analyze_image"
       /\ args.image_url /= {} /\ ~InSeq(DefaultModel(args), vision_models))
    => /\ downloads = 0 /\ netCalls = 0
       /\ pc = "done" => Enumerates(result, vision_models)

\* the pending call was answered with an HTTP status outside 2xx
UpstreamRefused ==
    /\ pc = "done" /\ variant = "server"
    /\ upstream.kind = "http" /\ upstream.status \notin 200..299

\* C11: for every tool of server.py that calls upstream, the result for a non-2xx
\* response holds both the status code and the response body.
C11_StatusAndBodyReported ==
    UpstreamRefused
    => /\ Contains(result, StatusStr(upstream.status))
       /\ \A i \in 1..Len(ErrorBody) : Contains(result, ErrorBody[i])

\* the answer to the pending call is a failure: an exception or a status
\* other than 200
Failed(o) == o.kind = "raise" \/ (o.kind = "http" /\ o.status /= 200)

\* C12: no invocation retries: it sends at most one request to the generative
\* API, and the step that takes a failed upstream call ends the invocation with
\* its result, sending and fetching nothing more.
C12_NoRetry ==
    [][ /\ netCalls' <= 1
        /\ (pc = "upstream" /\ pc' /= "upstream" /\ Failed(upstream'))
             => (pc' = "done" /\ netCalls' = netCalls /\ downloads' = downloads)
        /\ (pc = "upstream") => pc' \in {"upstream", "done"} ]_vars

\* C12 witness: an invocation whose one upstream call raised has its result
C12_Witness ==
    /\ pc = "done" /\ upstream.kind = "raise" /\ netCalls = 1
    /\ tool = "gemini_chat" /\ variant = "server"

\* the response to a chat call carries a filtering finish reason on its first
\* candidate together with text the library can extract
FilteredWithText ==
    /\ Answered /\ tool \in ChatTools /\ variant \in {"server", "robust"}
    /\ upstream.kind = "http" /\ upstream.status = 200 /\ ~upstream.malformed
    /\ upstream.block = "" /\ HasFirst
    /\ upstream.cands[1].finish = {2}
    /\ IF variant = "robust"
       THEN upstream.acc = "text" /\ LibText(upstream) /= <<>>
       ELSE ExtractText(upstream) /= NoResponse

\* C13: the chat translation applies block indicator, then finish-reason
\* indicator, then text extraction, then the fallback: a response with a
\* filtering finish reason and extractable text is reported as filtered.
C13_FilterBeforeText ==
    FilteredWithText => Contains(result, "SAFETY")

\* a turn of the user: the role "user", or no role at all (a bare prompt text
\* handed to generate_content)
UserTurn(turn) == turn.role \in {"user", ""}

\* C14: the conversation sent for a chat invocation is, with a non-empty system
\* prompt, three turns (user turn with the instruction, model acknowledgement,
\* user turn with the message), and otherwise one user turn with the message;
\* the last turn carries the user's message.
C14_Conversation ==
    (pc = "upstream" /\ tool = "gemini_chat" /\ args.message = {"hi"})
    => LET c == request.contents
       IN  IF Truthy(Get(args.system_prompt, None))
           THEN /\ Len(c) = 3
                /\ UserTurn(c[1]) /\ c[2].role = "model" /\ UserTurn(c[3])
                /\ \A i \in 1..Len(T(Get(args.system_prompt, ""))) :
                      Contains(c[1].text, T(Get(args.system_prompt, ""))[i])
                /\ c[3].text = T("hi")
           ELSE /\ Len(c) = 1 /\ UserTurn(c[1]) /\ c[1].text = T("hi")

\* C15: every request sent upstream carries a temperature within [0, 1] (in
\* tenths: 0..10); a chat or generate-content invocation with a temperature
\* outside that range makes no network call.
C15_TemperatureInRange ==
    /\ (pc = "upstream" /\ tool \in GeneratingTools)
         => \A t \in request.temperature : t \in 0..10
    /\ (tool \in ChatTools /\ \E t \in args.temperature : t \notin 0..10)
         => netCalls = 0

\* C16: image analysis runs model validation, then the download, then the
\* generation call: the image is fetched only for a vision model, the
\* generation call is sent only after a download that returned status 200, and a
\* download with a status outside 2xx ends the invocation with an error text and
\* no upstream call.
C16_ImageStepsOrdered ==
    tool = "gemini_analyze_image"
    => /\ downloads > 0 => InSeq(DefaultModel(args), vision_models)
       /\ netCalls > 0 => (image.kind = "http" /\ image.status = 200)
       /\ (pc = "done" /\ image.kind = "http" /\ image.status \notin 200..299)
            => (netCalls = 0 /\ result /= << >>)

---------------------------------------------------------------------------
(* Several invocations in flight at once *)

\* every handler activation keeps its locals in one module-level place
Frame_shared(i) == 1

\* the place of the local variables of invocation i: the handlers are plain
\* functions, so each activation has locals of its own
Frame(i) == i

\* the tools, arguments and answers followed when invocations overlap
ConcTools == {"gemini_chat", "gemini_analyze_image"}

ConcCallArgs(v, t) ==
    {a \in CallArgs(v, t) :
        /\ a.model = {} /\ a.temperature = {} /\ a.system_prompt = {}
        /\ a.message /= {""}}

\* a failure, or a response with one candidate of one part
OnePart(o) ==
    \/ o.kind = "raise"
    \/ o.status = 500
    \/ /\ o.status = 200 /\ ~o.malformed /\ o.block = "" /\ o.hasCands /\ Len(o.cands) = 1
       /\ o.cands[1].finish = {} /\ o.cands[1].hasContent /\ o.cands[1].hasParts
       /\ Len(o.cands[1].parts) = 1
       /\ o.acc \in {"text", "none"} /\ HasValidPart(o)

ConcRobustOutcomes == {o \in RobustOutcomes : OnePart(o)}

ConcOriginalOutcomes == {o \in OriginalOutcomes : OnePart(o)}

ConcServerOutcomes == {o \in ServerOutcomes : OnePart(o)}

ConcOutcomes(v) ==
    CASE v = "robust" -> ConcRobustOutcomes
      [] v = "original" -> ConcOriginalOutcomes
      [] OTHER -> ConcServerOutcomes

ConcDownloads == {d \in Downloads : d.kind = "http" /\ d.status /= 201}

\* another invocation than i is between its start and its result
OthersInFlight(i) == \E j \in Calls \ {i} : calls[j].pc \notin {"idle", "done", "raised"}

\* the transport hands a tool call to a new activation of the handler
ConcInvoke(i, t, a) ==
    /\ pc = "idle" /\ calls[i].pc = "idle"
    /\ LET eff == Begin(variant, t, a)
       IN  calls' = [calls EXCEPT ![i] =
                        [IdleCall EXCEPT !.pc = eff.next, !.tool = t, !.args = a,
                                         !.result = eff.text]]
    /\ UNCHANGED <<mainVars, locals>>

\* image_response = requests.get(image_url) of invocation i returns
ConcDownloadReturns(i, d) ==
    /\ calls[i].pc = "download"
    /\ locals' = [locals EXCEPT ![Frame(i)].image_response = d]
    /\ calls' = [calls EXCEPT ![i].pc = "fetched", ![i].image = d]
    /\ UNCHANGED mainVars

\* invocation i goes on from its image_response
ConcFetched(i) ==
    /\ calls[i].pc = "fetched"
    /\ LET eff == Fetched(variant, calls[i].tool, calls[i].args,
                          locals[Frame(i)].image_response)
       IN  calls' = [calls EXCEPT ![i].pc = eff.next, ![i].result = eff.text,
                                  ![i].overlap = OthersInFlight(i)]
    /\ UNCHANGED <<mainVars, locals>>

\* response = (the generative API call) of invocation i returns
ConcUpstreamReturns(i, o) ==
    /\ calls[i].pc = "upstream"
    /\ locals' = [locals EXCEPT ![Frame(i)].response = o]
    /\ calls' = [calls EXCEPT ![i].pc = "translate", ![i].got = o]
    /\ UNCHANGED mainVars

\* invocation i translates its response into its result
ConcTranslate(i) ==
    /\ calls[i].pc = "translate"
    /\ LET eff == Returned(variant, calls[i].tool, locals[Frame(i)].response)
       IN  calls' = [calls EXCEPT ![i].pc = eff.next, ![i].result = eff.text,
                                  ![i].overlap = OthersInFlight(i)]
    /\ UNCHANGED <<mainVars, locals>>

\* the result of invocation i has left its handler; the activation is gone
ConcReturn(i) ==
    /\ calls[i].pc \in {"done", "raised"}
    /\ calls' = [calls EXCEPT ![i] = IdleCall]
    /\ locals' = [locals EXCEPT ![Frame(i)] = NoLocals]
    /\ UNCHANGED mainVars

NextConc ==
    \/ Startup
    \/ \E i \in Calls : \E t \in ConcTools : \E a \in ConcCallArgs(variant, t) :
          ConcInvoke(i, t, a)
    \/ \E i \in Calls : \E d \in ConcDownloads : ConcDownloadReturns(i, d)
    \/ \E i \in Calls : ConcFetched(i)
    \/ \E i \in Calls : \E o \in ConcOutcomes(variant) : ConcUpstreamReturns(i, o)
    \/ \E i \in Calls : ConcTranslate(i)
    \/ \E i \in Calls : ConcReturn(i)

SpecConc == Init /\ [][NextConc]_vars

\* what the handler of tool c.tool gives for the arguments c.args and the
\* answers c.image and c.got when no other invocation runs
Solo(c) ==
    LET b == Begin(variant, c.tool, c.args)
        f == Fetched(variant, c.tool, c.args, c.image)
    IN  IF b.next \in {"done", "raised"} THEN b
        ELSE IF b.next = "download" /\ f.next /= "upstream" THEN f
        ELSE Returned(variant, c.tool, c.got)

\* C17: invocations are independent under any interleaving: the result of each
\* finished invocation is what its own tool, arguments and upstream answers
\* give when it runs alone, whatever the other invocations did meanwhile.
C17_Independent ==
    \A i \in Calls :
       calls[i].pc \in {"done", "raised"}
       => /\ calls[i].pc = Solo(calls[i]).next
          /\ calls[i].result = Solo(calls[i]).text

\* C17 witness: an invocation finished from its own response while another one,
\* holding a different response, was still in flight
C17_Witness ==
    \E i \in Calls : \E j \in Calls \ {i} :
       /\ calls[i].pc = "done" /\ calls[i].overlap
       /\ calls[i].got.kind = "http" /\ calls[i].got.status = 200
       /\ calls[i].result /= << >>
       /\ calls[j].pc = "translate" /\ calls[j].got /= calls[i].got

=============================================================================
